---- MODULE Spec2Model ----
(***************************************************************************)
(* Model of the pipeline store (src/src/stores/pipeline.store.ts) and of   *)
(* the push subscription it opens through the pipeline service             *)
(* (src/src/services/pipeline.service.ts).                                 *)
(*                                                                         *)
(* Every asynchronous store action is split at its `await`: the call part  *)
(* runs up to the await and leaves a pending request, the Resolved /       *)
(* Rejected part is the continuation that runs when the backend answers.   *)
(* Between the two any other store action or continuation may run, as on   *)
(* the JavaScript event loop.                                              *)
(***************************************************************************)
EXTENDS Integers, Sequences, FiniteSets

\* ------------------------------------------------------------------ bounds
\* number of execution ids the backend hands out in one behaviour
MaxExec == 2
\* number of EventSource objects that can be open at the same time
MaxSubs == 2
\* number of backend requests that can be pending at the same time
MaxInFlight == 2
\* number of distinct clock readings (new Date()) after the initial null
MaxTime == 1

\* ------------------------------------------------------- value encodings
\* executionId: string | null, currentConfiguration: ... | null,
\* lastUpdate: Date | null, window._pipelineUnsubscribe absent
Null == 0
\* a string field that is null (configurationError, selectedStepId,
\* payloadUpdateSource)
NullString == "null"
\* a field that is `undefined` (an optional number that is absent)
Undefined == -1

SubIds == 1..MaxSubs
Times == 1..MaxTime

\* JavaScript truthiness of an optional number: undefined and 0 are falsy
TruthyNumber(n) == n # Undefined /\ n # 0

\* JavaScript truthiness of an optional array, held as a sequence of length
\* 0 (absent) or 1 (present): every array, the empty one included, is truthy
TruthyArray(opt) == Len(opt) = 1

\* ------------------------------------------------------ backend catalogue
ConfigIds == {1, 2}

\* a step as the backend returns it inside a configuration
BackendStep(id) ==
  [id |-> id, name |-> id, status |-> "pending", progress |-> 0,
   warnings |-> 0, errors |-> 0, logs |-> <<>>, payload |-> "p0"]

\* GET configurations/{id}
BackendConfiguration(id) ==
  IF id = 1
  THEN [id |-> 1, name |-> "c1",
        steps |-> <<BackendStep("extraction"), BackendStep("detection")>>]
  ELSE [id |-> id, name |-> "c2", steps |-> <<BackendStep("extraction")>>]

\* currentConfiguration = null
NoConfiguration == [id |-> Null, name |-> "", steps |-> <<>>]

StepIds == {"extraction", "detection"}

\* ------------------------------------------------------------------ state
VARIABLES
  \* PipelineState
  configurations, currentConfiguration, isLoadingConfigurations,
  configurationError,
  executionId, pipelineStatus, steps, stepData, currentStepIndex,
  expandedSteps, isLeftPanelCollapsed, selectedStepId,
  \* whether the value held in expandedSteps is a Set or an Array
  expandedStepsForm,
  isConnected, lastUpdate,
  optimisticUpdates, payloadUpdateSource,
  \* window._pipelineUnsubscribe: the EventSource the stored handle closes
  pipelineUnsubscribe,
  \* the EventSource objects that are open, each with the execution it streams
  eventSources,
  \* connectToUpdates calls suspended at their await
  pendingConnects,
  \* backend requests that have been issued and not yet answered
  inflight,
  \* the last execution id the backend handed out
  nextExec,
  \* history: what the last step was, and whether a stop has succeeded since
  \* the last successful start
  last, stoppedSinceStart,
  \* NotificationService: the subscribed callbacks in subscription order, the
  \* active-notification map, the dismissal timers that are pending, and the
  \* number of ids handed out
  subscribers, activeNotifications, timers, nextNotification,
  \* usePipelineNotifications: the dependencies the status effect last ran with
  effectDeps,
  \* the backend: the payloads PUT .../steps/{stepId}/payload has stored
  persistedPayloads

configVars == <<configurations, currentConfiguration, isLoadingConfigurations,
                configurationError>>
execVars == <<executionId, pipelineStatus, currentStepIndex>>
stepVars == <<steps, stepData>>
uiVars ==
  <<expandedSteps, expandedStepsForm, isLeftPanelCollapsed, selectedStepId>>
optVars == <<optimisticUpdates, payloadUpdateSource>>
\* every field of PipelineState except lastUpdate
storeVarsButLastUpdate ==
  <<configVars, execVars, stepVars, uiVars, isConnected, optVars>>
storeVars == <<storeVarsButLastUpdate, lastUpdate>>
subVars == <<pipelineUnsubscribe, eventSources, pendingConnects>>
notificationVars ==
  <<subscribers, activeNotifications, timers, nextNotification>>
\* what no action of the store writes
outsideStore == <<notificationVars, effectDeps, persistedPayloads>>
vars ==
  <<storeVars, subVars, inflight, nextExec, last, stoppedSinceStart,
    outsideStore>>

\* ---------------------------------------------------------------- history
\* arg: the arguments of the call, or the response of the backend, that the
\* claims refer to, as a sequence of records
Did(act) ==
  [act |-> act, torn |-> FALSE, found |-> FALSE, noop |-> FALSE,
   subscribed |-> FALSE, rejected |-> FALSE, arg |-> <<>>]

\* ---------------------------------------------------------- initialState
InitialStore ==
  /\ configurations = <<>>
  /\ currentConfiguration = NoConfiguration
  /\ isLoadingConfigurations = FALSE
  /\ configurationError = NullString
  /\ executionId = Null
  /\ pipelineStatus = "idle"
  /\ steps = <<>>
  /\ stepData = <<>>
  /\ currentStepIndex = -1
  /\ expandedSteps = {}
  /\ expandedStepsForm = "Set"
  /\ isLeftPanelCollapsed = FALSE
  /\ selectedStepId = NullString
  /\ isConnected = FALSE
  /\ lastUpdate = Null
  /\ optimisticUpdates = {}
  /\ payloadUpdateSource = NullString

\* the hook has not rendered yet
NotMounted == [status |-> "unmounted", configuration |-> NoConfiguration]

\* a new NotificationService(), an unmounted hook, and a backend that has
\* stored no payload yet
InitialServices ==
  /\ subscribers = <<>>
  /\ activeNotifications = {}
  /\ timers = {}
  /\ nextNotification = 0
  /\ effectDeps = NotMounted
  /\ persistedPayloads = {}

Init ==
  /\ InitialServices
  /\ InitialStore
  /\ pipelineUnsubscribe = Null
  /\ eventSources = {}
  /\ pendingConnects = {}
  /\ inflight = {}
  /\ nextExec = 0
  /\ last = Did("init")
  /\ stoppedSinceStart = FALSE

\* ------------------------------------------------------------ step lists
\* Array.prototype.findIndex by step id; 0 stands for the source's -1
\* (sequences are 1-based)
NotFound == 0

FindIndex(list, id) ==
  IF \E i \in 1..Len(list) : list[i].id = id
  THEN CHOOSE i \in 1..Len(list) :
         /\ list[i].id = id
         /\ \A j \in 1..(i - 1) : list[j].id # id
  ELSE NotFound

\* loadConfiguration's map of a fetched step to its condensed entry
CondensedStep(step) ==
  [id |-> step.id, name |-> step.name, status |-> step.status,
   progress |-> step.progress, warnings |-> step.warnings,
   errors |-> step.errors]

CondensedSteps(list) == [i \in 1..Len(list) |-> CondensedStep(list[i])]

\* new Date(): a reading of the clock, never earlier than the last stamp
ClockReadings == {t \in Times : t >= lastUpdate /\ t <= lastUpdate + 1}

\* ------------------------------------------------------ handleStepUpdate
\* a merge that appends the incoming logs to the stored ones
MergeIntoStepDataAppendingLogs(step, update) ==
  [step EXCEPT
     !.status = update.status,
     !.progress = update.progress,
     !.warnings = IF TruthyNumber(update.warnings)
                  THEN update.warnings ELSE step.warnings,
     !.errors = IF TruthyNumber(update.errors)
                THEN update.errors ELSE step.errors,
     !.logs = IF TruthyArray(update.logs)
              THEN step.logs \o update.logs[1] ELSE step.logs]

\* Object.assign(state.stepData[stepIndex], {status, progress,
\*   warnings: update.warnings || old, errors: ..., logs: ...})
MergeIntoStepData(step, update) ==
  [step EXCEPT
     !.status = update.status,
     !.progress = update.progress,
     !.warnings = IF TruthyNumber(update.warnings)
                  THEN update.warnings ELSE step.warnings,
     !.errors = IF TruthyNumber(update.errors)
                THEN update.errors ELSE step.errors,
     !.logs = IF TruthyArray(update.logs) THEN update.logs[1] ELSE step.logs]

\* Object.assign(state.steps[basicStepIndex], {status, progress,
\*   warnings: update.warnings, errors: update.errors}): an undefined value
\* is copied like any other
MergeIntoStep(step, update) ==
  [step EXCEPT
     !.status = update.status,
     !.progress = update.progress,
     !.warnings = update.warnings,
     !.errors = update.errors]

\* a handler that adds a step for an id it does not find
StepDataAfterUpdateUpserting(sd, update) ==
  LET stepIndex == FindIndex(sd, update.stepId)
  IN  IF stepIndex # NotFound
      THEN [sd EXCEPT ![stepIndex] = MergeIntoStepData(sd[stepIndex], update)]
      ELSE Append(sd, [id |-> update.stepId, name |-> update.stepId,
                       status |-> update.status, progress |-> update.progress,
                       warnings |-> 0, errors |-> 0, logs |-> <<>>,
                       payload |-> "p0"])

\* stepData after handleStepUpdate(update)
StepDataAfterUpdate(sd, update) ==
  LET stepIndex == FindIndex(sd, update.stepId)
  IN  IF stepIndex # NotFound
      THEN [sd EXCEPT ![stepIndex] = MergeIntoStepData(sd[stepIndex], update)]
      ELSE sd

\* steps after handleStepUpdate(update); the condensed list is touched only
\* inside the branch that found the step in stepData
StepsAfterUpdate(sd, st, update) ==
  LET stepIndex == FindIndex(sd, update.stepId)
      basicStepIndex == FindIndex(st, update.stepId)
  IN  IF stepIndex # NotFound /\ basicStepIndex # NotFound
      THEN [st EXCEPT ![basicStepIndex] = MergeIntoStep(st[basicStepIndex], update)]
      ELSE st

\* the messages the push channel can carry
UpdateStatuses == {"pending", "in-progress", "success", "error"}
UpdateProgress == {0, 100}
UpdateCounts == {Undefined, 0, 1}
UpdateLogs == {<<>>, << <<>> >>, << <<"line">> >>}

StepUpdate(id, st, pr, w, e, lg) ==
  [stepId |-> id, status |-> st, progress |-> pr, warnings |-> w,
   errors |-> e, logs |-> lg]

\* handleStepUpdate(update), stamped with the clock reading t
handleStepUpdate(update, t) ==
  /\ stepData' = StepDataAfterUpdate(stepData, update)
  /\ steps' = StepsAfterUpdate(stepData, steps, update)
  /\ lastUpdate' = t
  /\ last' = [Did("handleStepUpdate") EXCEPT
                !.found = (FindIndex(stepData, update.stepId) # NotFound),
                !.noop = (stepData' = stepData /\ steps' = steps)]
  /\ UNCHANGED <<configVars, execVars, uiVars, isConnected, optVars>>

\* -------------------------------------------------------------- requests
\* a backend request that is pending: the service method called (op), the
\* execution id, configuration id and step id it was called with, and whether
\* a stop or a reset has completed since it was issued (torn)
\* payload is the body of a PUT .../payload, prev the payload the step held
\* when the request was issued
Request(op, eid, cfg, step) ==
  [op |-> op, eid |-> eid, cfg |-> cfg, step |-> step, torn |-> FALSE,
   payload |-> NullString, prev |-> NullString, stored |-> FALSE]

CanIssue(r) == Cardinality(inflight) < MaxInFlight /\ r \notin inflight

Issue(r) ==
  /\ CanIssue(r)
  /\ inflight' = inflight \cup {r}

Pending(op) == {r \in inflight : r.op = op}

MarkTorn(S) == {[r EXCEPT !.torn = TRUE] : r \in S}

\* ------------------------------------------------------ loadConfiguration
\* history: a getConfiguration request that a later loadConfiguration call
\* has followed is marked in its prev field
Superseded == "superseded"

Supersede(S) ==
  {IF r.op = "getConfiguration" THEN [r EXCEPT !.prev = Superseded] ELSE r :
     r \in S}

loadConfiguration(id) ==
  /\ CanIssue(Request("getConfiguration", Null, id, NullString))
  /\ inflight' =
       Supersede(inflight)
         \cup {Request("getConfiguration", Null, id, NullString)}
  /\ last' = Did("loadConfiguration")
  /\ UNCHANGED <<storeVars, subVars, nextExec, stoppedSinceStart, outsideStore>>

loadConfigurationResolved(r) ==
  LET configuration == BackendConfiguration(r.cfg)
  IN  /\ currentConfiguration' = configuration
      /\ steps' = CondensedSteps(configuration.steps)
      /\ stepData' = configuration.steps
      /\ inflight' = inflight \ {r}
      /\ last' = [Did("loadConfiguration:ok") EXCEPT !.torn = r.torn]
      /\ UNCHANGED <<configurations, isLoadingConfigurations,
                     configurationError, execVars, uiVars, isConnected,
                     lastUpdate, optVars, subVars, nextExec,
                     stoppedSinceStart, outsideStore>>

loadConfigurationRejected(r) ==
  /\ configurationError' = "Failed to load configuration"
  /\ inflight' = inflight \ {r}
  /\ last' = [Did("loadConfiguration:failed") EXCEPT !.torn = r.torn]
  /\ UNCHANGED <<configurations, currentConfiguration,
                 isLoadingConfigurations, execVars, stepVars, uiVars,
                 isConnected, lastUpdate, optVars, subVars, nextExec,
                 stoppedSinceStart, outsideStore>>

\* --------------------------------------- subscribeToStepUpdates / connect
FreeSubIds == SubIds \ {s.id : s \in eventSources}

\* connectToUpdates() up to its await, for a store whose executionId is eid:
\* the guard, then subscribeToStepUpdates, which either constructs the
\* EventSource (open from that moment on) or throws; the continuation is left
\* pending
connectToUpdatesCall(eid) ==
  IF eid = Null \/ isConnected
  THEN UNCHANGED <<eventSources, pendingConnects>>
  ELSE \/ /\ FreeSubIds # {}
          /\ LET sub == CHOOSE s \in FreeSubIds : \A o \in FreeSubIds : s <= o
             IN  /\ eventSources' = eventSources \cup {[id |-> sub, exec |-> eid]}
                 /\ pendingConnects' =
                      pendingConnects \cup {[sub |-> sub, torn |-> FALSE]}
       \/ /\ eventSources' = eventSources
          /\ pendingConnects' =
               pendingConnects \cup {[sub |-> Null, torn |-> FALSE]}

\* the bound on open EventSource objects
CanConnect(eid) == eid = Null \/ isConnected \/ FreeSubIds # {}

connectToUpdates ==
  /\ CanConnect(executionId)
  /\ connectToUpdatesCall(executionId)
  /\ last' = [Did("connectToUpdates") EXCEPT
                !.subscribed = (executionId # Null /\ ~isConnected),
                !.noop = (executionId = Null \/ isConnected)]
  /\ UNCHANGED <<storeVars, pipelineUnsubscribe, inflight, nextExec,
                 stoppedSinceStart, outsideStore>>

\* the continuation after `await subscribeToStepUpdates(...)` returned p.sub
connectToUpdatesResolved(p) ==
  /\ p.sub # Null
  /\ isConnected' = TRUE
  /\ pipelineUnsubscribe' = p.sub
  /\ pendingConnects' = pendingConnects \ {p}
  /\ last' = [Did("connectToUpdates:ok") EXCEPT !.torn = p.torn]
  /\ UNCHANGED <<configVars, execVars, stepVars, uiVars, lastUpdate, optVars,
                 eventSources, inflight, nextExec, stoppedSinceStart, outsideStore>>

\* the catch branch of connectToUpdates
connectToUpdatesRejected(p) ==
  /\ p.sub = Null
  /\ pendingConnects' = pendingConnects \ {p}
  /\ last' = [Did("connectToUpdates:failed") EXCEPT !.torn = p.torn]
  /\ UNCHANGED <<storeVars, pipelineUnsubscribe, eventSources, inflight,
                 nextExec, stoppedSinceStart, outsideStore>>

\* disconnectFromUpdates(): call and delete the stored handle, if any, and
\* clear isConnected
disconnectFromUpdatesBody ==
  /\ eventSources' = {s \in eventSources : s.id # pipelineUnsubscribe}
  /\ pipelineUnsubscribe' = Null
  /\ isConnected' = FALSE

disconnectFromUpdates ==
  /\ disconnectFromUpdatesBody
  /\ last' = Did("disconnectFromUpdates")
  /\ UNCHANGED <<configVars, execVars, stepVars, uiVars, lastUpdate, optVars,
                 pendingConnects, inflight, nextExec, stoppedSinceStart, outsideStore>>

\* EventSource.onmessage of an open subscription: the parsed message goes to
\* handleStepUpdate
onmessage(s, update, t) ==
  /\ s \in eventSources
  /\ handleStepUpdate(update, t)
  /\ UNCHANGED <<subVars, inflight, nextExec, stoppedSinceStart, outsideStore>>

\* ---------------------------------------------------------- startPipeline
startPipeline ==
  IF currentConfiguration = NoConfiguration
  THEN /\ last' = [Did("startPipeline") EXCEPT !.noop = TRUE]
       /\ UNCHANGED <<storeVars, subVars, inflight, nextExec,
                      stoppedSinceStart, outsideStore>>
  ELSE /\ nextExec + Cardinality(Pending("startPipeline")) < MaxExec
       /\ Issue(Request("startPipeline", Null, currentConfiguration.id,
                        NullString))
       /\ last' = Did("startPipeline")
       /\ UNCHANGED <<storeVars, subVars, nextExec, stoppedSinceStart, outsideStore>>

\* the continuation after the start endpoint answered: the set(...) and then
\* get().connectToUpdates(), which runs up to its own await
startPipelineResolved(r) ==
  LET responseExecutionId == nextExec + 1
  IN  /\ CanConnect(responseExecutionId)
      /\ nextExec' = responseExecutionId
      /\ executionId' = responseExecutionId
      /\ pipelineStatus' = "running"
      /\ currentStepIndex' = 0
      /\ connectToUpdatesCall(responseExecutionId)
      /\ inflight' = inflight \ {r}
      /\ stoppedSinceStart' = FALSE
      /\ last' = [Did("startPipeline:ok") EXCEPT
                    !.torn = r.torn, !.subscribed = ~isConnected]
      /\ UNCHANGED <<configVars, stepVars, uiVars, isConnected, lastUpdate,
                     optVars, pipelineUnsubscribe, outsideStore>>

\* a catch branch that also flags the pipeline as failed
CaughtAndMarkedError(r, act) ==
  /\ inflight' = inflight \ {r}
  /\ last' = [Did(act) EXCEPT !.torn = r.torn]
  /\ pipelineStatus' = "error"
  /\ UNCHANGED <<configVars, executionId, currentStepIndex, stepVars, uiVars,
                 isConnected, lastUpdate, optVars, subVars, nextExec,
                 stoppedSinceStart, outsideStore>>

\* the catch branch shared by the execution actions: console.error only
CaughtAndLogged(r, act) ==
  /\ inflight' = inflight \ {r}
  /\ last' = [Did(act) EXCEPT !.torn = r.torn]
  /\ UNCHANGED <<storeVars, subVars, nextExec, stoppedSinceStart, outsideStore>>

startPipelineRejected(r) == CaughtAndLogged(r, "startPipeline:failed")

\* ------------------------------------------- pausePipeline / resumePipeline
\* a call of an execution endpoint that does not test executionId
CallExecutionEndpointUnguarded(op, step) ==
  /\ Issue(Request(op, executionId, Null, step))
  /\ last' = [Did(op) EXCEPT !.noop = (executionId = Null)]
  /\ UNCHANGED <<storeVars, subVars, nextExec, stoppedSinceStart, outsideStore>>

\* the guard `if (!executionId) return` and the call of an execution endpoint
CallExecutionEndpoint(op, step) ==
  IF executionId = Null
  THEN /\ last' = [Did(op) EXCEPT !.noop = TRUE]
       /\ UNCHANGED <<storeVars, subVars, inflight, nextExec,
                      stoppedSinceStart, outsideStore>>
  ELSE /\ Issue(Request(op, executionId, Null, step))
       /\ last' = Did(op)
       /\ UNCHANGED <<storeVars, subVars, nextExec, stoppedSinceStart, outsideStore>>

pausePipeline == CallExecutionEndpoint("pausePipeline", NullString)

pausePipelineResolved(r) ==
  /\ pipelineStatus' = "paused"
  /\ inflight' = inflight \ {r}
  /\ last' = [Did("pausePipeline:ok") EXCEPT !.torn = r.torn]
  /\ UNCHANGED <<configVars, executionId, currentStepIndex, stepVars, uiVars,
                 isConnected, lastUpdate, optVars, subVars, nextExec,
                 stoppedSinceStart, outsideStore>>

pausePipelineRejected(r) == CaughtAndLogged(r, "pausePipeline:failed")

resumePipeline == CallExecutionEndpoint("resumePipeline", NullString)

resumePipelineResolved(r) ==
  /\ pipelineStatus' = "running"
  /\ inflight' = inflight \ {r}
  /\ last' = [Did("resumePipeline:ok") EXCEPT !.torn = r.torn]
  /\ UNCHANGED <<configVars, executionId, currentStepIndex, stepVars, uiVars,
                 isConnected, lastUpdate, optVars, subVars, nextExec,
                 stoppedSinceStart, outsideStore>>

resumePipelineRejected(r) == CaughtAndLogged(r, "resumePipeline:failed")

\* ------------------------------------------------------------ stopPipeline
stopPipeline == CallExecutionEndpoint("stopPipeline", NullString)

\* the continuation after the stop endpoint answered: the set(...) and then
\* get().disconnectFromUpdates()
stopPipelineResolved(r) ==
  /\ pipelineStatus' = "idle"
  /\ executionId' = Null
  /\ currentStepIndex' = -1
  /\ disconnectFromUpdatesBody
  /\ inflight' = MarkTorn(inflight \ {r})
  /\ pendingConnects' = MarkTorn(pendingConnects)
  /\ stoppedSinceStart' = TRUE
  /\ last' = [Did("stopPipeline:ok") EXCEPT !.torn = r.torn]
  /\ UNCHANGED <<configVars, stepVars, uiVars, lastUpdate, optVars, nextExec,
                 outsideStore>>

stopPipelineRejected(r) == CaughtAndLogged(r, "stopPipeline:failed")

\* ----------------------------------------------------- runStep / runFromStep
runStep(stepId) == CallExecutionEndpoint("runStep", stepId)

\* nothing follows the await in the try block
runStepResolved(r) ==
  /\ inflight' = inflight \ {r}
  /\ last' = [Did("runStep:ok") EXCEPT !.torn = r.torn]
  /\ UNCHANGED <<storeVars, subVars, nextExec, stoppedSinceStart, outsideStore>>

runStepRejected(r) == CaughtAndLogged(r, "runStep:failed")

runFromStep(stepId) == CallExecutionEndpoint("runFromStep", stepId)

runFromStepResolved(r) ==
  /\ inflight' = inflight \ {r}
  /\ last' = [Did("runFromStep:ok") EXCEPT
                !.torn = r.torn, !.arg = <<[id |-> r.step]>>]
  /\ UNCHANGED <<storeVars, subVars, nextExec, stoppedSinceStart, outsideStore>>

runFromStepRejected(r) == CaughtAndLogged(r, "runFromStep:failed")

\* -------------------------------------------------------------------- reset
\* a reset that restores the fields and leaves the subscription alone
resetWithoutTeardown ==
  /\ UNCHANGED <<pipelineUnsubscribe, eventSources>>
  /\ isConnected' = FALSE
  /\ configurations' = <<>>
  /\ currentConfiguration' = NoConfiguration
  /\ isLoadingConfigurations' = FALSE
  /\ configurationError' = NullString
  /\ executionId' = Null
  /\ pipelineStatus' = "idle"
  /\ steps' = <<>>
  /\ stepData' = <<>>
  /\ currentStepIndex' = -1
  /\ expandedSteps' = {}
  /\ expandedStepsForm' = "Set"
  /\ isLeftPanelCollapsed' = FALSE
  /\ selectedStepId' = NullString
  /\ lastUpdate' = Null
  /\ optimisticUpdates' = {}
  /\ payloadUpdateSource' = NullString
  /\ inflight' = MarkTorn(inflight)
  /\ pendingConnects' = MarkTorn(pendingConnects)
  /\ last' = [Did("reset") EXCEPT
                !.noop = (InitialStore /\ pipelineUnsubscribe = Null),
                !.subscribed = (pipelineUnsubscribe # Null)]
  /\ UNCHANGED <<nextExec, stoppedSinceStart, outsideStore>>

\* get().disconnectFromUpdates(), then Object.assign(state, initialState)
\* with a fresh optimisticUpdates map and expandedSteps set
reset ==
  /\ disconnectFromUpdatesBody
  /\ configurations' = <<>>
  /\ currentConfiguration' = NoConfiguration
  /\ isLoadingConfigurations' = FALSE
  /\ configurationError' = NullString
  /\ executionId' = Null
  /\ pipelineStatus' = "idle"
  /\ steps' = <<>>
  /\ stepData' = <<>>
  /\ currentStepIndex' = -1
  /\ expandedSteps' = {}
  /\ expandedStepsForm' = "Set"
  /\ isLeftPanelCollapsed' = FALSE
  /\ selectedStepId' = NullString
  /\ lastUpdate' = Null
  /\ optimisticUpdates' = {}
  /\ payloadUpdateSource' = NullString
  /\ inflight' = MarkTorn(inflight)
  /\ pendingConnects' = MarkTorn(pendingConnects)
  /\ last' = [Did("reset") EXCEPT
                !.noop = (InitialStore /\ pipelineUnsubscribe = Null),
                !.subscribed = (pipelineUnsubscribe # Null)]
  /\ UNCHANGED <<nextExec, stoppedSinceStart, outsideStore>>

\* ------------------------------------------------------------ specification
\* the messages the backend pushes in the execution life cycle
LifecycleUpdates ==
  {StepUpdate("extraction", "success", 100, Undefined, Undefined, <<>>),
   StepUpdate("unknown", "in-progress", 0, 1, Undefined, <<>>)}

\* the execution life cycle: configuration 1 is loaded, executions are
\* started, paused, resumed and stopped, subscriptions opened and closed, with
\* every interleaving of the calls and their continuations
Next ==
  \/ loadConfiguration(1)
  \/ \E r \in Pending("getConfiguration") : loadConfigurationResolved(r)
  \/ startPipeline
  \/ \E r \in Pending("startPipeline") : startPipelineResolved(r)
  \/ \E r \in Pending("startPipeline") : startPipelineRejected(r)
  \/ pausePipeline
  \/ \E r \in Pending("pausePipeline") : pausePipelineResolved(r)
  \/ \E r \in Pending("pausePipeline") : pausePipelineRejected(r)
  \/ resumePipeline
  \/ \E r \in Pending("resumePipeline") : resumePipelineResolved(r)
  \/ \E r \in Pending("resumePipeline") : resumePipelineRejected(r)
  \/ stopPipeline
  \/ \E r \in Pending("stopPipeline") : stopPipelineResolved(r)
  \/ \E r \in Pending("stopPipeline") : stopPipelineRejected(r)
  \/ connectToUpdates
  \/ \E p \in pendingConnects : connectToUpdatesResolved(p)
  \/ \E p \in pendingConnects : connectToUpdatesRejected(p)
  \/ disconnectFromUpdates
  \/ \E s \in eventSources, update \in LifecycleUpdates, t \in ClockReadings :
       onmessage(s, update, t)
  \/ reset

Spec == Init /\ [][Next]_vars

\* ------------------------------------------------- awaited calls
\* the same store driven by a caller that awaits each asynchronous action
\* before it calls the next one; runStep and runFromStep are part of it
NothingPending == inflight = {} /\ pendingConnects = {}

NextAwaited ==
  \/ NothingPending /\ loadConfiguration(1)
  \/ \E r \in Pending("getConfiguration") : loadConfigurationResolved(r)
  \/ \E r \in Pending("getConfiguration") : loadConfigurationRejected(r)
  \/ NothingPending /\ startPipeline
  \/ \E r \in Pending("startPipeline") : startPipelineResolved(r)
  \/ \E r \in Pending("startPipeline") : startPipelineRejected(r)
  \/ NothingPending /\ pausePipeline
  \/ \E r \in Pending("pausePipeline") : pausePipelineResolved(r)
  \/ \E r \in Pending("pausePipeline") : pausePipelineRejected(r)
  \/ NothingPending /\ resumePipeline
  \/ \E r \in Pending("resumePipeline") : resumePipelineResolved(r)
  \/ \E r \in Pending("resumePipeline") : resumePipelineRejected(r)
  \/ NothingPending /\ stopPipeline
  \/ \E r \in Pending("stopPipeline") : stopPipelineResolved(r)
  \/ \E r \in Pending("stopPipeline") : stopPipelineRejected(r)
  \/ \E stepId \in StepIds : NothingPending /\ runStep(stepId)
  \/ \E r \in Pending("runStep") : runStepResolved(r)
  \/ \E r \in Pending("runStep") : runStepRejected(r)
  \/ \E stepId \in StepIds : NothingPending /\ runFromStep(stepId)
  \/ \E r \in Pending("runFromStep") : runFromStepResolved(r)
  \/ \E r \in Pending("runFromStep") : runFromStepRejected(r)
  \/ \E p \in pendingConnects : connectToUpdatesResolved(p)
  \/ \E p \in pendingConnects : connectToUpdatesRejected(p)
  \/ \E s \in eventSources, update \in LifecycleUpdates, t \in ClockReadings :
       onmessage(s, update, t)
  \/ NothingPending /\ reset

SpecAwaited == Init /\ [][NextAwaited]_vars

\* ------------------------------------------------------- the push channel
\* the store while execution 1 of configuration 1 runs with its subscription
\* connected
InitConnected ==
  /\ InitialServices
  /\ configurations = <<>>
  /\ currentConfiguration = BackendConfiguration(1)
  /\ isLoadingConfigurations = FALSE
  /\ configurationError = NullString
  /\ executionId = 1
  /\ pipelineStatus = "running"
  /\ steps = CondensedSteps(BackendConfiguration(1).steps)
  /\ stepData = BackendConfiguration(1).steps
  /\ currentStepIndex = 0
  /\ expandedSteps = {}
  /\ expandedStepsForm = "Set"
  /\ isLeftPanelCollapsed = FALSE
  /\ selectedStepId = NullString
  /\ isConnected = TRUE
  /\ lastUpdate = Null
  /\ optimisticUpdates = {}
  /\ payloadUpdateSource = NullString
  /\ pipelineUnsubscribe = 1
  /\ eventSources = {[id |-> 1, exec |-> 1]}
  /\ pendingConnects = {}
  /\ inflight = {}
  /\ nextExec = 1
  /\ last = Did("connectToUpdates:ok")
  /\ stoppedSinceStart = FALSE

\* every message shape for the first step and for a step id the store does
\* not hold, and two messages for the second step
StepUpdates ==
  {StepUpdate(id, st, pr, w, e, lg) :
     id \in {"extraction", "unknown"}, st \in UpdateStatuses,
     pr \in UpdateProgress, w \in UpdateCounts, e \in UpdateCounts,
     lg \in UpdateLogs}
  \cup {StepUpdate("detection", "in-progress", 0, 1, Undefined, <<>>),
        StepUpdate("detection", "error", 100, Undefined, 1, << <<"line">> >>)}

NextPush ==
  \E s \in eventSources, update \in StepUpdates, t \in ClockReadings :
    onmessage(s, update, t)

SpecPush == InitConnected /\ [][NextPush]_vars

\* --------------------------------------------------------------- UI actions
\* toggleStepExpansion(stepId): has / delete / add on the Set; on a value
\* that is not a Set, `has` is not a function, the producer throws and the
\* set(...) changes nothing
toggleStepExpansion(stepId) ==
  /\ IF expandedStepsForm = "Set"
     THEN /\ expandedSteps' = IF stepId \in expandedSteps
                              THEN expandedSteps \ {stepId}
                              ELSE expandedSteps \cup {stepId}
          /\ last' = Did("toggleStepExpansion")
     ELSE /\ expandedSteps' = expandedSteps
          /\ last' = [Did("toggleStepExpansion") EXCEPT !.rejected = TRUE]
  /\ UNCHANGED <<configVars, execVars, stepVars, expandedStepsForm,
                 isLeftPanelCollapsed, selectedStepId, isConnected,
                 lastUpdate, optVars, subVars, inflight, nextExec,
                 stoppedSinceStart, outsideStore>>

setLeftPanelCollapsed(collapsed) ==
  /\ isLeftPanelCollapsed' = collapsed
  /\ last' = Did("setLeftPanelCollapsed")
  /\ UNCHANGED <<configVars, execVars, stepVars, expandedSteps,
                 expandedStepsForm, selectedStepId, isConnected, lastUpdate,
                 optVars, subVars, inflight, nextExec, stoppedSinceStart, outsideStore>>

selectStep(stepId) ==
  /\ selectedStepId' = stepId
  /\ last' = Did("selectStep")
  /\ UNCHANGED <<configVars, execVars, stepVars, expandedSteps,
                 expandedStepsForm, isLeftPanelCollapsed, isConnected,
                 lastUpdate, optVars, subVars, inflight, nextExec,
                 stoppedSinceStart, outsideStore>>

setCurrentStepIndex(index) ==
  /\ currentStepIndex' = index
  /\ last' = Did("setCurrentStepIndex")
  /\ UNCHANGED <<configVars, executionId, pipelineStatus, stepVars, uiVars,
                 isConnected, lastUpdate, optVars, subVars, inflight,
                 nextExec, stoppedSinceStart, outsideStore>>

\* ------------------------------------------------------------------ hydrate
\* a Partial<PipelineState> holding some of the persisted UI preferences and
\* possibly an optimisticUpdates map: `has` names the keys it carries
HydratePartial(has, collapsed, expanded, form, optimistic) ==
  [has |-> has, isLeftPanelCollapsed |-> collapsed,
   expandedSteps |-> expanded, expandedStepsForm |-> form,
   optimisticUpdates |-> optimistic]

\* hydrate(partialState): Object.assign(state, partialState), every carried
\* value stored as it is
hydrate(partial) ==
  /\ isLeftPanelCollapsed' =
       IF "isLeftPanelCollapsed" \in partial.has
       THEN partial.isLeftPanelCollapsed ELSE isLeftPanelCollapsed
  /\ expandedSteps' =
       IF "expandedSteps" \in partial.has
       THEN partial.expandedSteps ELSE expandedSteps
  /\ expandedStepsForm' =
       IF "expandedSteps" \in partial.has
       THEN partial.expandedStepsForm ELSE expandedStepsForm
  /\ optimisticUpdates' =
       IF "optimisticUpdates" \in partial.has
       THEN partial.optimisticUpdates ELSE optimisticUpdates
  /\ last' = [Did("hydrate") EXCEPT !.arg = <<partial>>]
  /\ UNCHANGED <<configVars, execVars, stepVars, selectedStepId, isConnected,
                 lastUpdate, payloadUpdateSource, subVars, inflight, nextExec,
                 stoppedSinceStart, outsideStore>>

\* ------------------------------------------------- configuration management
MaxConfigurations == 2

\* the identifier the backend assigns to a configuration it stores
ServerAssignedId == 3

\* what a caller submits: a configuration without identity, version or
\* timestamps
NewConfigurationNames == {"draft"}
NewConfigurationSteps == <<BackendStep("extraction")>>

SavedConfiguration(name) ==
  [id |-> ServerAssignedId, name |-> name, steps |-> NewConfigurationSteps]

\* the lists GET /pipeline/configurations may answer with
FetchedLists ==
  {<<BackendConfiguration(1)>>,
   <<BackendConfiguration(1), BackendConfiguration(2)>>}

\* tells concurrent calls of one endpoint apart (kept in the eid field of a
\* request that carries no execution id)
CallTag(op) ==
  CHOOSE n \in 0..MaxInFlight : \A r \in Pending(op) : r.eid # n

\* loadConfigurations up to the await
loadConfigurations ==
  /\ Issue(Request("getConfigurations", CallTag("getConfigurations"), Null,
                   NullString))
  /\ isLoadingConfigurations' = TRUE
  /\ configurationError' = NullString
  /\ last' = Did("loadConfigurations")
  /\ UNCHANGED <<configurations, currentConfiguration, execVars, stepVars,
                 uiVars, isConnected, lastUpdate, optVars, subVars, nextExec,
                 stoppedSinceStart, outsideStore>>

loadConfigurationsResolved(r, fetched) ==
  /\ inflight' = inflight \ {r}
  /\ configurations' = fetched
  /\ isLoadingConfigurations' = FALSE
  /\ last' = [Did("loadConfigurations:ok") EXCEPT !.arg = fetched]
  /\ UNCHANGED <<currentConfiguration, configurationError, execVars, stepVars,
                 uiVars, isConnected, lastUpdate, optVars, subVars, nextExec,
                 stoppedSinceStart, outsideStore>>

loadConfigurationsRejected(r) ==
  /\ inflight' = inflight \ {r}
  /\ configurationError' = "Failed to load configurations"
  /\ isLoadingConfigurations' = FALSE
  /\ last' = Did("loadConfigurations:failed")
  /\ UNCHANGED <<configurations, currentConfiguration, execVars, stepVars,
                 uiVars, isConnected, lastUpdate, optVars, subVars, nextExec,
                 stoppedSinceStart, outsideStore>>

\* saveConfiguration up to the await; the submitted name travels in the
\* payload field of the request
saveConfiguration(name) ==
  /\ Len(configurations) + Cardinality(Pending("saveConfiguration"))
       < MaxConfigurations
  /\ Issue([Request("saveConfiguration", CallTag("saveConfiguration"), Null,
                    NullString) EXCEPT !.payload = name])
  /\ last' = Did("saveConfiguration")
  /\ UNCHANGED <<storeVars, subVars, nextExec, stoppedSinceStart, outsideStore>>

saveConfigurationResolved(r) ==
  /\ inflight' = inflight \ {r}
  /\ configurations' = Append(configurations, SavedConfiguration(r.payload))
  /\ currentConfiguration' = SavedConfiguration(r.payload)
  /\ last' = [Did("saveConfiguration:ok") EXCEPT
                !.arg = <<SavedConfiguration(r.payload)>>]
  /\ UNCHANGED <<isLoadingConfigurations, configurationError, execVars,
                 stepVars, uiVars, isConnected, lastUpdate, optVars, subVars,
                 nextExec, stoppedSinceStart, outsideStore>>

\* a failed save that also drops the configuration that was current
saveConfigurationRejectedDroppingCurrent(r) ==
  /\ inflight' = inflight \ {r}
  /\ configurationError' = "Failed to save configuration"
  /\ currentConfiguration' = NoConfiguration
  /\ last' = Did("saveConfiguration:failed")
  /\ UNCHANGED <<configurations, isLoadingConfigurations, execVars, stepVars,
                 uiVars, isConnected, lastUpdate, optVars, subVars, nextExec,
                 stoppedSinceStart, outsideStore>>

\* the catch branch of saveConfiguration: only the error message is written
saveConfigurationRejected(r) ==
  /\ inflight' = inflight \ {r}
  /\ configurationError' = "Failed to save configuration"
  /\ last' = Did("saveConfiguration:failed")
  /\ UNCHANGED <<configurations, currentConfiguration,
                 isLoadingConfigurations, execVars, stepVars, uiVars,
                 isConnected, lastUpdate, optVars, subVars, nextExec,
                 stoppedSinceStart, outsideStore>>

\* a Partial<PipelineConfiguration>: `has` names the keys it carries
ConfigurationUpdates ==
  {[has |-> {"name"}, name |-> "renamed", steps |-> <<>>],
   [has |-> {"steps"}, name |-> "",
    steps |-> <<BackendStep("detection")>>]}

updateCurrentConfiguration(updates) ==
  /\ currentConfiguration' =
       IF currentConfiguration = NoConfiguration
       THEN currentConfiguration
       ELSE [currentConfiguration EXCEPT
               !.name = IF "name" \in updates.has THEN updates.name ELSE @,
               !.steps = IF "steps" \in updates.has THEN updates.steps ELSE @]
  /\ last' = [Did("updateCurrentConfiguration") EXCEPT
                !.noop = (currentConfiguration = NoConfiguration),
                !.arg = <<updates>>]
  /\ UNCHANGED <<configurations, isLoadingConfigurations, configurationError,
                 execVars, stepVars, uiVars, isConnected, lastUpdate, optVars,
                 subVars, inflight, nextExec, stoppedSinceStart, outsideStore>>

\* ---------------------------------------------------------- step management
\* a Partial<PipelineStepData>: a key the caller left out is Undefined (for
\* the numbers) or UndefinedString (for the strings)
UndefinedString == "undefined"

StepPartial(status, progress, warnings, errors, payload) ==
  [status |-> status, progress |-> progress, warnings |-> warnings,
   errors |-> errors, payload |-> payload]

\* Object.assign(state.stepData[stepIndex], updates): the keys of updates
\* overwrite, the others stay
AssignPartial(step, updates) ==
  [step EXCEPT
     !.status = IF updates.status # UndefinedString THEN updates.status ELSE @,
     !.progress = IF updates.progress # Undefined THEN updates.progress ELSE @,
     !.warnings = IF updates.warnings # Undefined THEN updates.warnings ELSE @,
     !.errors = IF updates.errors # Undefined THEN updates.errors ELSE @,
     !.payload = IF updates.payload # UndefinedString
                 THEN updates.payload ELSE @]

\* Object.assign(state.steps[basicStepIndex], {status: updates.status, ...}):
\* the four keys are always there, so a key the caller left out overwrites
\* with undefined
AssignCondensed(step, updates) ==
  [step EXCEPT !.status = updates.status, !.progress = updates.progress,
               !.warnings = updates.warnings, !.errors = updates.errors]

\* the set(...) of updateStepData
UpdateStepDataIn(sd, stepId, updates) ==
  LET stepIndex == FindIndex(sd, stepId)
  IN  IF stepIndex # NotFound
      THEN [sd EXCEPT ![stepIndex] = AssignPartial(@, updates)]
      ELSE sd

UpdateStepsIn(sd, st, stepId, updates) ==
  LET stepIndex == FindIndex(sd, stepId)
      basicStepIndex == FindIndex(st, stepId)
  IN  IF stepIndex # NotFound /\ basicStepIndex # NotFound
      THEN [st EXCEPT ![basicStepIndex] = AssignCondensed(@, updates)]
      ELSE st

updateStepData(stepId, updates, t) ==
  /\ stepData' = UpdateStepDataIn(stepData, stepId, updates)
  /\ steps' = UpdateStepsIn(stepData, steps, stepId, updates)
  /\ lastUpdate' = t
  /\ last' = [Did("updateStepData") EXCEPT
                !.found = (FindIndex(stepData, stepId) # NotFound),
                !.arg = <<[id |-> stepId, updates |-> updates]>>]
  /\ UNCHANGED <<configVars, execVars, uiVars, isConnected, optVars, subVars,
                 inflight, nextExec, stoppedSinceStart, outsideStore>>

\* a local change that waits for the backend to answer
StepDataWithPayloadDeferred(sd, stepId, payload) == sd

\* state.stepData[stepIndex].payload = payload, when the step is there
StepDataWithPayload(sd, stepId, payload) ==
  LET stepIndex == FindIndex(sd, stepId)
  IN  IF stepIndex # NotFound
      THEN [sd EXCEPT ![stepIndex].payload = payload]
      ELSE sd

PayloadOf(sd, stepId) ==
  LET stepIndex == FindIndex(sd, stepId)
  IN  IF stepIndex # NotFound THEN sd[stepIndex].payload ELSE NullString

\* the third parameter of updateStepPayload: source = 'individual' when the
\* caller passes none
Omitted == "omitted"
SourceOrDefault(source) == IF source = Omitted THEN "individual" ELSE source

\* updateStepPayload up to the await: the local change, then the PUT when a
\* configuration was current at the call
updateStepPayload(stepId, payload, source, t) ==
  /\ stepData' = StepDataWithPayload(stepData, stepId, payload)
  /\ payloadUpdateSource' = SourceOrDefault(source)
  /\ lastUpdate' = t
  /\ IF currentConfiguration # NoConfiguration
     THEN Issue([Request("updateStepPayload", Null, currentConfiguration.id,
                         stepId)
                 EXCEPT !.payload = payload,
                        !.prev = PayloadOf(stepData, stepId)])
     ELSE inflight' = inflight
  /\ last' = [Did("updateStepPayload") EXCEPT
                !.found = (FindIndex(stepData, stepId) # NotFound),
                !.noop = (currentConfiguration = NoConfiguration),
                !.arg = <<[id |-> stepId, payload |-> payload,
                           source |-> source]>>]
  /\ UNCHANGED <<configVars, execVars, steps, uiVars, isConnected,
                 optimisticUpdates, subVars, nextExec, stoppedSinceStart, outsideStore>>

updateStepPayloadResolved(r) ==
  /\ inflight' = inflight \ {r}
  /\ last' = Did("updateStepPayload:ok")
  /\ UNCHANGED <<storeVars, subVars, nextExec, stoppedSinceStart, outsideStore>>

\* the catch branch: console.error, and a comment where the revert would be
updateStepPayloadRejected(r) ==
  /\ inflight' = inflight \ {r}
  /\ last' = [Did("updateStepPayload:failed") EXCEPT
                !.rejected = TRUE,
                !.arg = <<[id |-> r.step, payload |-> r.prev,
                           source |-> NullString]>>]
  /\ UNCHANGED <<storeVars, subVars, nextExec, stoppedSinceStart, outsideStore>>

\* stepUpdates.forEach(...): applied in order, a later entry for a step
\* overwrites an earlier one
RECURSIVE StepDataWithPayloads(_, _)
StepDataWithPayloads(sd, stepUpdates) ==
  IF stepUpdates = <<>>
  THEN sd
  ELSE StepDataWithPayloads(
         StepDataWithPayload(sd, Head(stepUpdates).id,
                             Head(stepUpdates).payload),
         Tail(stepUpdates))

updateAllStepPayloads(stepUpdates, t) ==
  /\ stepData' = StepDataWithPayloads(stepData, stepUpdates)
  /\ payloadUpdateSource' = "settings"
  /\ lastUpdate' = t
  /\ last' = [Did("updateAllStepPayloads") EXCEPT !.arg = stepUpdates]
  /\ UNCHANGED <<configVars, execVars, steps, uiVars, isConnected,
                 optimisticUpdates, subVars, inflight, nextExec,
                 stoppedSinceStart, outsideStore>>

\* ------------------------------------------------------- optimistic updates
\* the Map<string, Partial<PipelineStepData>> as a set of entries, one per key
\* a set that adds the entry next to the one the key already has
MapSetKeepingEarlier(map, key, value) ==
  map \cup {[id |-> key, updates |-> value]}

MapSet(map, key, value) ==
  {e \in map : e.id # key} \cup {[id |-> key, updates |-> value]}
MapDelete(map, key) == {e \in map : e.id # key}
MapHas(map, key) == \E e \in map : e.id = key

\* applyOptimisticUpdate: record the partial, then get().updateStepData(...)
applyOptimisticUpdate(stepId, updates, t) ==
  /\ optimisticUpdates' = MapSet(optimisticUpdates, stepId, updates)
  /\ stepData' = UpdateStepDataIn(stepData, stepId, updates)
  /\ steps' = UpdateStepsIn(stepData, steps, stepId, updates)
  /\ lastUpdate' = t
  /\ last' = [Did("applyOptimisticUpdate") EXCEPT
                !.found = (FindIndex(stepData, stepId) # NotFound),
                !.arg = <<[id |-> stepId, updates |-> updates]>>]
  /\ UNCHANGED <<configVars, execVars, uiVars, isConnected,
                 payloadUpdateSource, subVars, inflight, nextExec,
                 stoppedSinceStart, outsideStore>>

revertOptimisticUpdate(stepId) ==
  /\ optimisticUpdates' =
       IF MapHas(optimisticUpdates, stepId)
       THEN MapDelete(optimisticUpdates, stepId)
       ELSE optimisticUpdates
  /\ last' = [Did("revertOptimisticUpdate") EXCEPT
                !.found = MapHas(optimisticUpdates, stepId),
                !.arg = <<[id |-> stepId]>>]
  /\ UNCHANGED <<configVars, execVars, stepVars, uiVars, isConnected,
                 lastUpdate, payloadUpdateSource, subVars, inflight, nextExec,
                 stoppedSinceStart, outsideStore>>

commitOptimisticUpdate(stepId) ==
  /\ optimisticUpdates' = MapDelete(optimisticUpdates, stepId)
  /\ last' = [Did("commitOptimisticUpdate") EXCEPT
                !.found = MapHas(optimisticUpdates, stepId),
                !.arg = <<[id |-> stepId]>>]
  /\ UNCHANGED <<configVars, execVars, stepVars, uiVars, isConnected,
                 lastUpdate, payloadUpdateSource, subVars, inflight, nextExec,
                 stoppedSinceStart, outsideStore>>

\* ------------------------------------------------- session specification
\* the partial states handed to hydrate: the persisted preferences as they
\* come out of storage (expandedSteps as an array), a partial carrying an
\* optimisticUpdates map, and a partial carrying expandedSteps as a Set
HydratePartials ==
  {HydratePartial({"isLeftPanelCollapsed", "expandedSteps"}, TRUE,
                  {"extraction", "detection"}, "Array", {}),
   HydratePartial({"optimisticUpdates"}, FALSE, {}, "Set",
                  {[id |-> "extraction",
                    updates |-> StepPartial("success", Undefined, Undefined,
                                            Undefined, UndefinedString)]}),
   HydratePartial({"expandedSteps"}, FALSE, {"extraction"}, "Set", {})}

StepIndexes == -1..Cardinality(StepIds)

\* a user session, every call awaited before the next: configurations are
\* loaded and swapped, an execution is started and stopped, messages arrive,
\* the UI preferences are set and rehydrated, the store is reset
NextSession ==
  \/ \E id \in ConfigIds : NothingPending /\ loadConfiguration(id)
  \/ \E r \in Pending("getConfiguration") : loadConfigurationResolved(r)
  \/ NothingPending /\ startPipeline
  \/ \E r \in Pending("startPipeline") : startPipelineResolved(r)
  \/ NothingPending /\ stopPipeline
  \/ \E r \in Pending("stopPipeline") : stopPipelineResolved(r)
  \/ \E p \in pendingConnects : connectToUpdatesResolved(p)
  \/ \E s \in eventSources, update \in LifecycleUpdates, t \in ClockReadings :
       onmessage(s, update, t)
  \/ \E stepId \in {"extraction"} : toggleStepExpansion(stepId)
  \/ \E collapsed \in BOOLEAN : setLeftPanelCollapsed(collapsed)
  \/ \E stepId \in {"extraction"} : selectStep(stepId)
  \/ \E index \in StepIndexes : setCurrentStepIndex(index)
  \/ \E partial \in HydratePartials : hydrate(partial)
  \/ NothingPending /\ reset

SpecSession == Init /\ [][NextSession]_vars

\* --------------------------------------------- step-editing specification
\* the partials handed to updateStepData and applyOptimisticUpdate: a status
\* alone, a status with its progress, a progress alone
StepPartials ==
  {StepPartial("success", Undefined, Undefined, Undefined, UndefinedString),
   StepPartial("in-progress", 100, Undefined, Undefined, UndefinedString),
   StepPartial(UndefinedString, 0, Undefined, Undefined, UndefinedString)}

\* a step of configuration 1 and an id no configuration has
EditedStepIds == {"extraction", "unknown"}

Payloads == {"p1"}
Sources == {Omitted, "settings"}

\* the lists handed to updateAllStepPayloads: one step listed twice, and an
\* unknown step next to a known one
BulkPayloads ==
  {<<[id |-> "extraction", payload |-> "p1"],
     [id |-> "extraction", payload |-> "p2"]>>,
   <<[id |-> "unknown", payload |-> "p1"],
     [id |-> "detection", payload |-> "p2"]>>}

\* the step editor: configuration 1 is loaded or not, then steps are edited,
\* payloads saved one by one or in bulk, optimistic updates applied, reverted
\* and committed
NextSteps ==
  \/ NothingPending /\ loadConfiguration(1)
  \/ \E r \in Pending("getConfiguration") : loadConfigurationResolved(r)
  \/ \E stepId \in EditedStepIds, updates \in StepPartials,
        t \in ClockReadings :
       updateStepData(stepId, updates, t)
  \/ \E stepId \in EditedStepIds, payload \in Payloads, source \in Sources,
        t \in ClockReadings :
       NothingPending /\ updateStepPayload(stepId, payload, source, t)
  \/ \E r \in Pending("updateStepPayload") : updateStepPayloadResolved(r)
  \/ \E r \in Pending("updateStepPayload") : updateStepPayloadRejected(r)
  \/ \E stepUpdates \in BulkPayloads, t \in ClockReadings :
       updateAllStepPayloads(stepUpdates, t)
  \/ \E stepId \in EditedStepIds, updates \in StepPartials,
        t \in ClockReadings :
       applyOptimisticUpdate(stepId, updates, t)
  \/ \E stepId \in EditedStepIds : revertOptimisticUpdate(stepId)
  \/ \E stepId \in EditedStepIds : commitOptimisticUpdate(stepId)

SpecSteps == Init /\ [][NextSteps]_vars

\* --------------------------------------- configuration-management model
\* the configuration screen: the list is fetched, configurations are loaded,
\* saved and edited, with every interleaving of the calls and their answers
NextConfig ==
  \/ loadConfigurations
  \/ \E r \in Pending("getConfigurations"), fetched \in FetchedLists :
       loadConfigurationsResolved(r, fetched)
  \/ \E r \in Pending("getConfigurations") : loadConfigurationsRejected(r)
  \/ \E id \in ConfigIds : loadConfiguration(id)
  \/ \E r \in Pending("getConfiguration") : loadConfigurationResolved(r)
  \/ \E r \in Pending("getConfiguration") : loadConfigurationRejected(r)
  \/ \E name \in NewConfigurationNames : saveConfiguration(name)
  \/ \E r \in Pending("saveConfiguration") : saveConfigurationResolved(r)
  \/ \E r \in Pending("saveConfiguration") : saveConfigurationRejected(r)
  \/ \E updates \in ConfigurationUpdates : updateCurrentConfiguration(updates)

SpecConfig == Init /\ [][NextConfig]_vars

\* ------------------------------------------------------ NotificationService
MaxNotifications == 2

\* the callbacks handed to subscribe: one that returns, one that throws, and
\* one that calls its own unsubscribe function when it is invoked
Callbacks == {"toast", "faulty", "once"}
Throws(callback) == callback = "faulty"
UnsubscribesItself(callback) == callback = "once"

\* Set.add: a callback the set holds keeps its place, a new one goes last
SetAdd(set, callback) ==
  IF \E i \in DOMAIN set : set[i] = callback
  THEN set
  ELSE Append(set, callback)

\* Set.delete
SetDelete(set, callback) == SelectSeq(set, LAMBDA c : c # callback)

Holds(set, callback) == \E i \in DOMAIN set : set[i] = callback

\* subscribe(callback)
subscribe(callback) ==
  /\ subscribers' = SetAdd(subscribers, callback)
  /\ last' = [Did("subscribe") EXCEPT !.arg = <<[callback |-> callback]>>]
  /\ UNCHANGED <<storeVars, subVars, inflight, nextExec, stoppedSinceStart,
                 activeNotifications, timers, nextNotification, effectDeps,
                 persistedPayloads>>

\* the function subscribe(callback) returned
unsubscribe(callback) ==
  /\ subscribers' = SetDelete(subscribers, callback)
  /\ last' = [Did("unsubscribe") EXCEPT
                !.found = Holds(subscribers, callback),
                !.arg = <<[callback |-> callback]>>]
  /\ UNCHANGED <<storeVars, subVars, inflight, nextExec, stoppedSinceStart,
                 activeNotifications, timers, nextNotification, effectDeps,
                 persistedPayloads>>

\* NotificationOptions: `has` names the optional keys the caller passed
NotificationOptions(type, title, has, persistent, duration) ==
  [type |-> type, title |-> title, has |-> has, persistent |-> persistent,
   duration |-> duration]

\* a show that schedules the dismissal whatever options.persistent says
NeverPersistent(options) == FALSE

\* !options.persistent is false only for a persistent key that is true
IsPersistent(options) == "persistent" \in options.has /\ options.persistent

\* options.duration || 5000
DefaultDuration == 5000
DelayOf(options) ==
  IF "duration" \in options.has /\ TruthyNumber(options.duration)
  THEN options.duration
  ELSE DefaultDuration

\* a forEach that lets the exception of a callback out: the callbacks after
\* the one that throws are not reached
RECURSIVE NotifySubscribersUnguarded(_, _, _)
NotifySubscribersUnguarded(todo, set, delivered) ==
  IF todo = <<>>
  THEN [delivered |-> delivered, subscribers |-> set, threw |-> FALSE]
  ELSE LET callback == Head(todo)
       IN  IF ~Holds(set, callback)
           THEN NotifySubscribersUnguarded(Tail(todo), set, delivered)
           ELSE IF Throws(callback)
           THEN [delivered |-> Append(delivered, callback),
                 subscribers |-> set, threw |-> TRUE]
           ELSE NotifySubscribersUnguarded(
                  Tail(todo),
                  IF UnsubscribesItself(callback)
                  THEN SetDelete(set, callback) ELSE set,
                  Append(delivered, callback))

\* notifySubscribers: this.subscribers.forEach with a try/catch around each
\* callback; forEach leaves out a callback that was deleted before its turn.
\* The result is the callbacks invoked, in order, and the set afterwards
RECURSIVE NotifySubscribers(_, _, _)
NotifySubscribers(todo, set, delivered) ==
  IF todo = <<>>
  THEN [delivered |-> delivered, subscribers |-> set, threw |-> FALSE]
  ELSE LET callback == Head(todo)
       IN  IF ~Holds(set, callback)
           THEN NotifySubscribers(Tail(todo), set, delivered)
           ELSE NotifySubscribers(
                  Tail(todo),
                  IF UnsubscribesItself(callback)
                  THEN SetDelete(set, callback) ELSE set,
                  Append(delivered, callback))

\* generateId: notification_<Date.now()>_<nine random characters>, held here
\* as the number of the notification
GenerateId == nextNotification + 1

\* show(options) on the service; `outcome` is what notifySubscribers did. An
\* exception out of notifySubscribers leaves show before the setTimeout
ShowOnService(options, outcome) ==
  /\ nextNotification < MaxNotifications
  /\ nextNotification' = GenerateId
  /\ activeNotifications' =
       {n \in activeNotifications : n.id # GenerateId}
         \cup {[id |-> GenerateId, options |-> options]}
  /\ subscribers' = outcome.subscribers
  /\ timers' =
       IF IsPersistent(options) \/ outcome.threw
       THEN timers
       ELSE timers \cup {[id |-> GenerateId, delay |-> DelayOf(options)]}

Shown(act, options, outcome) ==
  [Did(act) EXCEPT
     !.rejected = outcome.threw,
     !.arg = <<[id |-> GenerateId, options |-> options,
                delivered |-> outcome.delivered]>>]

show(options) ==
  LET outcome == NotifySubscribers(subscribers, subscribers, <<>>)
  IN  /\ ShowOnService(options, outcome)
      /\ last' = Shown("show", options, outcome)
      /\ UNCHANGED <<storeVars, subVars, inflight, nextExec,
                     stoppedSinceStart, effectDeps, persistedPayloads>>

\* {type: 'error', title, message, persistent: true, ...options}
ErrorOptions(title, options) ==
  NotificationOptions(
    "error", title, options.has \cup {"persistent"},
    IF "persistent" \in options.has THEN options.persistent ELSE TRUE,
    options.duration)

\* error(title, message, options)
error(title, options) ==
  LET outcome == NotifySubscribers(subscribers, subscribers, <<>>)
  IN  /\ ShowOnService(ErrorOptions(title, options), outcome)
      /\ last' = [Shown("error", ErrorOptions(title, options), outcome)
                    EXCEPT !.arg = Append(@, [override |-> options])]
      /\ UNCHANGED <<storeVars, subVars, inflight, nextExec,
                     stoppedSinceStart, effectDeps, persistedPayloads>>

\* this.activeNotifications.delete(id), when the map has the id
DismissIn(active, id) == {n \in active : n.id # id}

dismiss(id) ==
  /\ activeNotifications' = DismissIn(activeNotifications, id)
  /\ last' = [Did("dismiss") EXCEPT
                !.found = (\E n \in activeNotifications : n.id = id),
                !.arg = <<[id |-> id]>>]
  /\ UNCHANGED <<storeVars, subVars, inflight, nextExec, stoppedSinceStart,
                 subscribers, timers, nextNotification, effectDeps,
                 persistedPayloads>>

\* the setTimeout callback of show: this.dismiss(notification.id)
timerFires(timer) ==
  /\ timer \in timers
  /\ timers' = timers \ {timer}
  /\ activeNotifications' = DismissIn(activeNotifications, timer.id)
  /\ last' = [Did("timer") EXCEPT
                !.found = (\E n \in activeNotifications : n.id = timer.id),
                !.arg = <<[id |-> timer.id]>>]
  /\ UNCHANGED <<storeVars, subVars, inflight, nextExec, stoppedSinceStart,
                 subscribers, nextNotification, effectDeps,
                 persistedPayloads>>

dismissAll ==
  /\ activeNotifications' = {}
  /\ last' = Did("dismissAll")
  /\ UNCHANGED <<storeVars, subVars, inflight, nextExec, stoppedSinceStart,
                 subscribers, timers, nextNotification, effectDeps,
                 persistedPayloads>>

\* the options callers pass to show: nothing optional, persistent, an
\* explicit persistent: false, and a duration of 0
ShownOptions ==
  {NotificationOptions("info", "t", {}, FALSE, 0),
   NotificationOptions("warning", "t", {"persistent"}, TRUE, 0),
   NotificationOptions("info", "t", {"persistent", "duration"}, FALSE, 0)}

\* the options callers pass to error: none, and persistent: false
ErrorOverrides ==
  {NotificationOptions("error", "t", {}, FALSE, 0),
   NotificationOptions("error", "t", {"persistent"}, FALSE, 0)}

NotificationIds == 1..MaxNotifications

\* the notification service on its own: callbacks come and go, notifications
\* are shown and dismissed, timers fire
NextNotify ==
  \/ \E callback \in Callbacks : subscribe(callback)
  \/ \E callback \in Callbacks : unsubscribe(callback)
  \/ \E options \in ShownOptions : show(options)
  \/ \E options \in ErrorOverrides : error("Pipeline Failed", options)
  \/ \E id \in NotificationIds : dismiss(id)
  \/ \E timer \in timers : timerFires(timer)
  \/ dismissAll

\* every timer show can schedule
PossibleTimers ==
  {[id |-> id, delay |-> DelayOf(options)] :
     id \in NotificationIds, options \in ShownOptions}

\* a timer that was set fires: the event loop keeps running
TimersFire == \A timer \in PossibleTimers : WF_vars(timerFires(timer))

SpecNotify == Init /\ [][NextNotify]_vars

SpecNotifyTimed == SpecNotify /\ TimersFire

\* ---------------------------------------------------- usePipelineNotifications
\* the dependency array [pipelineStatus, currentConfiguration, toast] of the
\* status effect; toast is stable, and the configuration object is told apart
\* by its value (a store write that changes it makes a new object)
StatusDeps ==
  [status |-> pipelineStatus, configuration |-> currentConfiguration]

\* pipelineStarted: success('Pipeline Started', ..., {duration: 3000})
StartedDuration == 3000
PipelineStartedOptions ==
  NotificationOptions("success", "Pipeline Started", {"duration"}, FALSE,
                      StartedDuration)

\* pipelineCompleted: success('Pipeline Completed', ..., {duration: 5000, ...})
CompletedDuration == 5000
PipelineCompletedOptions ==
  NotificationOptions("success", "Pipeline Completed", {"duration"}, FALSE,
                      CompletedDuration)

\* pipelineError: error('Pipeline Failed', ..., {actions})
PipelineErrorOptions ==
  ErrorOptions("Pipeline Failed",
               NotificationOptions("error", "Pipeline Failed", {}, FALSE, 0))

\* the switch of the status effect
NoticeFor(status) ==
  CASE status = "running" -> <<PipelineStartedOptions>>
    [] status = "completed" -> <<PipelineCompletedOptions>>
    [] status = "error" -> <<PipelineErrorOptions>>
    [] OTHER -> <<>>

\* React runs the effect after the first render and after a render in which
\* a dependency differs from the one of the previous run
EffectDue == StatusDeps # effectDeps

\* the status effect: nothing without a current configuration, else the
\* notice of the status, if it has one
statusEffect ==
  /\ EffectDue
  /\ effectDeps' = StatusDeps
  /\ IF currentConfiguration = NoConfiguration \/ NoticeFor(pipelineStatus) = <<>>
     THEN /\ UNCHANGED notificationVars
          /\ last' = [Did("statusEffect") EXCEPT !.noop = TRUE]
     ELSE LET options == NoticeFor(pipelineStatus)[1]
              outcome == NotifySubscribers(subscribers, subscribers, <<>>)
          IN  /\ ShowOnService(options, outcome)
              /\ last' = Shown("statusEffect", options, outcome)
  /\ UNCHANGED <<storeVars, subVars, inflight, nextExec, stoppedSinceStart,
                 persistedPayloads>>

\* the hook next to the store: a configuration is loaded, renamed and saved,
\* an execution started, paused, resumed and stopped, every call awaited, and
\* the effect runs after the renders
NextBridge ==
  \/ NothingPending /\ loadConfiguration(1)
  \/ \E r \in Pending("getConfiguration") : loadConfigurationResolved(r)
  \/ \E name \in NewConfigurationNames : NothingPending /\ saveConfiguration(name)
  \/ \E r \in Pending("saveConfiguration") : saveConfigurationResolved(r)
  \/ \E updates \in ConfigurationUpdates : updateCurrentConfiguration(updates)
  \/ NothingPending /\ startPipeline
  \/ \E r \in Pending("startPipeline") : startPipelineResolved(r)
  \/ NothingPending /\ pausePipeline
  \/ \E r \in Pending("pausePipeline") : pausePipelineResolved(r)
  \/ NothingPending /\ resumePipeline
  \/ \E r \in Pending("resumePipeline") : resumePipelineResolved(r)
  \/ NothingPending /\ stopPipeline
  \/ \E r \in Pending("stopPipeline") : stopPipelineResolved(r)
  \/ \E p \in pendingConnects : connectToUpdatesResolved(p)
  \/ \E timer \in timers : timerFires(timer)
  \/ statusEffect

SpecBridge == Init /\ [][NextBridge]_vars

\* ------------------------------------------------------ payload persistence
\* the backend handles PUT /pipeline/configurations/{configId}/steps/{stepId}
\* /payload: the payload of the request replaces the one stored for the step
backendStoresPayload(r) ==
  /\ r \in Pending("updateStepPayload")
  /\ ~r.stored
  /\ persistedPayloads' =
       {e \in persistedPayloads : ~(e.cfg = r.cfg /\ e.step = r.step)}
         \cup {[cfg |-> r.cfg, step |-> r.step, payload |-> r.payload]}
  /\ inflight' = (inflight \ {r}) \cup {[r EXCEPT !.stored = TRUE]}
  /\ last' = [Did("backend:updateStepPayload") EXCEPT
                !.arg = <<[id |-> r.step, payload |-> r.payload]>>]
  /\ UNCHANGED <<storeVars, subVars, nextExec, stoppedSinceStart,
                 notificationVars, effectDeps>>

EditedPayloads == {"p1", "p2"}

\* the payload editor: configuration 1 is loaded, payloads of its first step
\* are saved without waiting for the earlier save, the requests reach the
\* backend in any order and every one is answered with success
NextPayload ==
  \/ NothingPending /\ persistedPayloads = {} /\ loadConfiguration(1)
  \/ \E r \in Pending("getConfiguration") : loadConfigurationResolved(r)
  \/ \E payload \in EditedPayloads, source \in Sources, t \in ClockReadings :
       /\ Pending("getConfiguration") = {}
       /\ updateStepPayload("extraction", payload, source, t)
  \/ \E r \in Pending("updateStepPayload") : backendStoresPayload(r)
  \/ \E r \in Pending("updateStepPayload") :
       r.stored /\ updateStepPayloadResolved(r)

SpecPayload == Init /\ [][NextPayload]_vars

\* ------------------------------------------------------------------ claims
\* C1: in every reachable state executionId is non-null whenever
\* pipelineStatus is running or paused, and null whenever it is idle.
C1_ExecutionIdMatchesStatus ==
  /\ pipelineStatus \in {"running", "paused"} => executionId # Null
  /\ pipelineStatus = "idle" => executionId = Null

DocumentedTransitions ==
  {<<"idle", "running">>, <<"running", "paused">>, <<"paused", "running">>,
   <<"running", "completed">>, <<"running", "error">>, <<"paused", "error">>,
   <<"completed", "running">>, <<"error", "running">>}
  \cup {<<from, "idle">> :
          from \in {"idle", "running", "paused", "completed", "error"}}

\* C2: every change of pipelineStatus is one of the documented transitions;
\* in particular idle never moves directly to paused.
C2_OnlyDocumentedTransitions ==
  [][pipelineStatus' # pipelineStatus
       => <<pipelineStatus, pipelineStatus'>> \in DocumentedTransitions]_vars

Statuses(list) == [i \in 1..Len(list) |-> list[i].status]

\* C3: when stopPipeline succeeds executionId is null and currentStepIndex is
\* -1, and from then on, until a start succeeds, no push message changes the
\* status of a step in steps or stepData.
C3_NoPushAfterStop ==
  [][/\ last'.act = "stopPipeline:ok"
          => executionId' = Null /\ currentStepIndex' = -1
     /\ (stoppedSinceStart /\ last'.act = "handleStepUpdate")
          => /\ Statuses(steps') = Statuses(steps)
             /\ Statuses(stepData') = Statuses(stepData)]_vars

\* C4: at most one subscription is open at any moment, and every open
\* subscription is the one the stored handle closes, or is about to be stored
\* by the connectToUpdates call that opened it.
C4_SingleSubscription ==
  /\ Cardinality(eventSources) <= 1
  /\ \A s \in eventSources :
       \/ s.id = pipelineUnsubscribe
       \/ \E p \in pendingConnects : p.sub = s.id

TornDown ==
  /\ executionId = Null
  /\ pipelineStatus = "idle"
  /\ currentStepIndex = -1
  /\ isConnected = FALSE

\* C5: once a stop has succeeded or reset has run, the resolution of a
\* request that was issued before it does not move executionId,
\* pipelineStatus, currentStepIndex or isConnected away from null, idle, -1
\* and false.
C5_NoResurrection ==
  [][(TornDown /\ last'.torn) => TornDown']_vars

\* C9: startPipeline without a current configuration issues no request and
\* changes no state; when the start endpoint succeeds, executionId is the
\* returned id, pipelineStatus is running, currentStepIndex is 0 and a
\* subscription for that execution id is initiated.
C9_StartPipeline ==
  [][/\ (currentConfiguration = NoConfiguration /\ last'.act = "startPipeline")
          => UNCHANGED <<storeVars, subVars, inflight>>
     /\ last'.act = "startPipeline:ok"
          => /\ executionId' = nextExec'
             /\ executionId' # Null
             /\ pipelineStatus' = "running"
             /\ currentStepIndex' = 0
             /\ last'.subscribed]_vars

\* C6: handleStepUpdate is idempotent: in every store state, for every
\* message, applying the message a second time leaves steps and stepData as
\* the first application left them.
C6_HandleStepUpdateIdempotent ==
  \A update \in StepUpdates :
    LET once == StepDataAfterUpdate(stepData, update)
        onceSteps == StepsAfterUpdate(stepData, steps, update)
    IN  /\ StepDataAfterUpdate(once, update) = once
        /\ StepsAfterUpdate(once, onceSteps, update) = onceSteps

\* a message with logs has just been applied to a step that already held
\* everything the message carries
C6_AppliedTwice ==
  /\ last.act = "handleStepUpdate"
  /\ last.found
  /\ last.noop
  /\ stepData[1].status = "success"
  /\ stepData[1].logs = <<"line">>
  /\ stepData[1].warnings = 1

\* C7: a handleStepUpdate whose stepId matches no step in stepData changes
\* no state field other than lastUpdate.
C7_UnknownStepChangesNothing ==
  [][(last'.act = "handleStepUpdate" /\ ~last'.found)
       => UNCHANGED <<storeVarsButLastUpdate, subVars, inflight>>]_vars

\* a message for an unknown step id has been handled after a message for a
\* known one
C7_UnknownHandled ==
  /\ last.act = "handleStepUpdate"
  /\ ~last.found
  /\ lastUpdate # Null
  /\ stepData[1].status = "error"
  /\ stepData[2].status = "in-progress"

\* what the merge of a message into a step is documented to give, for a field
\* the message may omit
Present(value) == value # Undefined

\* the step lists moved as handleStepUpdate(update) moves them
IsEffectOf(update) ==
  /\ last'.act = "handleStepUpdate"
  /\ stepData' = StepDataAfterUpdate(stepData, update)
  /\ steps' = StepsAfterUpdate(stepData, steps, update)

\* C8: after a message for a known step, status and progress equal the
\* message's values in stepData and steps; warnings and errors (both lists)
\* and logs (stepData) equal the message's value when the message carries the
\* field, 0 and the empty list included, and keep their value otherwise.
C8_MergeTakesMessageFields ==
  [][\A update \in StepUpdates :
       LET stepIndex == FindIndex(stepData, update.stepId)
           basicStepIndex == FindIndex(steps, update.stepId)
       IN  (stepIndex # NotFound /\ basicStepIndex # NotFound
            /\ IsEffectOf(update)) =>
             LET old == stepData[stepIndex]
                 oldBasic == steps[basicStepIndex]
                 new == stepData'[stepIndex]
                 newBasic == steps'[basicStepIndex]
             IN  /\ new.status = update.status
                 /\ new.progress = update.progress
                 /\ newBasic.status = update.status
                 /\ newBasic.progress = update.progress
                 /\ new.warnings = IF Present(update.warnings)
                                   THEN update.warnings ELSE old.warnings
                 /\ new.errors = IF Present(update.errors)
                                 THEN update.errors ELSE old.errors
                 /\ newBasic.warnings = IF Present(update.warnings)
                                        THEN update.warnings
                                        ELSE oldBasic.warnings
                 /\ newBasic.errors = IF Present(update.errors)
                                      THEN update.errors ELSE oldBasic.errors
                 /\ new.logs = IF Len(update.logs) = 1
                               THEN update.logs[1] ELSE old.logs]_vars

FailedActs ==
  {"startPipeline:failed", "pausePipeline:failed", "resumePipeline:failed",
   "stopPipeline:failed", "runStep:failed", "runFromStep:failed"}

\* C10: when the backend call of startPipeline, pausePipeline,
\* resumePipeline, stopPipeline, runStep or runFromStep fails, the action
\* completes without rethrowing and the store and the subscription are as
\* they were just before.
C10_FailureLeavesState ==
  [][last'.act \in FailedActs
       => /\ UNCHANGED <<storeVars, subVars>>
          /\ ~last'.rejected]_vars

\* the stop endpoint has just failed for a connected, running execution
C10_StopFailed ==
  /\ last.act = "stopPipeline:failed"
  /\ pipelineStatus = "running"
  /\ executionId # Null
  /\ isConnected

ExecutionCalls ==
  {"pausePipeline", "resumePipeline", "stopPipeline", "runStep", "runFromStep"}

RunStepActs ==
  {"runStep", "runStep:ok", "runStep:failed",
   "runFromStep", "runFromStep:ok", "runFromStep:failed"}

\* C11: pausePipeline, resumePipeline, stopPipeline, runStep and runFromStep
\* called while executionId is null issue no request and change no state;
\* runStep and runFromStep never change a store field, whether their backend
\* call succeeds or fails.
C11_NoExecutionNoCall ==
  [][/\ (executionId = Null /\ last'.act \in ExecutionCalls)
          => UNCHANGED <<storeVars, subVars, inflight>>
     /\ last'.act \in RunStepActs => UNCHANGED <<storeVars, subVars>>]_vars

\* runStep has just been called on a store whose execution was stopped
C11_RunStepWithoutExecution ==
  /\ last.act = "runStep"
  /\ last.noop
  /\ executionId = Null
  /\ stoppedSinceStart
  /\ currentConfiguration # NoConfiguration

\* C12: immediately after reset(), whatever the state before, every field of
\* the store has its initial value, and the stored subscription handle has
\* been invoked (its EventSource is closed) and cleared
C12_ResetRestoresInitialState ==
  [][last'.act = "reset" =>
       /\ InitialStore'
       /\ pipelineUnsubscribe' = Null
       /\ \A s \in eventSources' : s.id # pipelineUnsubscribe]_vars

\* a reset of a store that held a subscription handle
C12_ResetWhileSubscribed ==
  last.act = "reset" /\ ~last.noop /\ last.subscribed

\* C13: updateStepData with a stepId that is not in stepData is a no-op: the
\* whole store, lastUpdate included, is the same after the call as before
C13_UnknownStepIsNoOp ==
  [][(last'.act = "updateStepData" /\ ~last'.found)
       => UNCHANGED storeVars]_vars

\* C14: when the persistence call of updateStepPayload rejects, the local
\* payload of the step is back to the value it had before the call
C14_PayloadRestoredOnRejection ==
  [][last'.act = "updateStepPayload:failed"
       => PayloadOf(stepData', last'.arg[1].id) = last'.arg[1].payload]_vars

\* the payload the last entry of stepUpdates for stepId carries
LastPayloadFor(stepUpdates, stepId) ==
  LET k == CHOOSE k \in DOMAIN stepUpdates :
             /\ stepUpdates[k].id = stepId
             /\ \A j \in DOMAIN stepUpdates :
                  stepUpdates[j].id = stepId => j <= k
  IN  stepUpdates[k].payload

Listed(stepUpdates, stepId) ==
  \E k \in DOMAIN stepUpdates : stepUpdates[k].id = stepId

\* C15: right after updateStepPayload(stepId, payload, source) is called, and
\* before its request is answered, the matching step of stepData carries the
\* new payload, payloadUpdateSource is the source (individual when none was
\* passed), lastUpdate is stamped, and a request to persist the payload is
\* pending exactly when a configuration was current; updateAllStepPayloads
\* gives every listed known step its payload, sets the source to settings,
\* stamps lastUpdate and issues no request
C15_PayloadAppliedAtOnce ==
  [][/\ last'.act = "updateStepPayload" =>
          LET a == last'.arg[1]
          IN  /\ \A i \in DOMAIN stepData :
                   /\ stepData'[i].id = stepData[i].id
                   /\ stepData[i].id = a.id => stepData'[i].payload = a.payload
                   /\ stepData[i].id # a.id => stepData'[i] = stepData[i]
              /\ payloadUpdateSource' =
                   (IF a.source = Omitted THEN "individual" ELSE a.source)
              /\ lastUpdate' \in Times
              /\ IF currentConfiguration = NoConfiguration
                 THEN inflight' = inflight
                 ELSE \E r \in inflight' \ inflight :
                        /\ inflight' = inflight \cup {r}
                        /\ r.op = "updateStepPayload"
                        /\ r.cfg = currentConfiguration.id
                        /\ r.step = a.id
                        /\ r.payload = a.payload
     /\ last'.act = "updateAllStepPayloads" =>
          /\ Len(stepData') = Len(stepData)
          /\ \A i \in DOMAIN stepData :
               /\ stepData'[i].id = stepData[i].id
               /\ Listed(last'.arg, stepData[i].id) =>
                    stepData'[i].payload
                      = LastPayloadFor(last'.arg, stepData[i].id)
               /\ ~Listed(last'.arg, stepData[i].id) =>
                    stepData'[i] = stepData[i]
          /\ payloadUpdateSource' = "settings"
          /\ lastUpdate' \in Times
          /\ inflight' = inflight]_vars

\* a payload saved for a step of the current configuration, with no source
\* passed, and its request still pending
C15_PayloadSetWhilePending ==
  /\ last.act = "updateStepPayload" /\ last.found /\ ~last.noop
  /\ last.arg[1].source = Omitted
  /\ Pending("updateStepPayload") # {}

SuccessMeansComplete ==
  \A i \in DOMAIN stepData :
    stepData[i].status = "success" => stepData[i].progress = 100

ProgressNeverDecreases ==
  \A i \in DOMAIN stepData :
    (/\ i \in DOMAIN stepData'
     /\ stepData'[i].id = stepData[i].id
     /\ executionId' = executionId
     /\ stepData[i].status = "in-progress"
     /\ stepData'[i].status = "in-progress")
      => stepData'[i].progress >= stepData[i].progress

\* C19: in every reachable state a step of stepData whose status is success
\* has progress 100, and between two consecutive states of one run in which
\* a step is in-progress its progress does not decrease
C19_ProgressInvariant ==
  [](SuccessMeansComplete) /\ [][ProgressNeverDecreases]_vars

\* C16: right after a loadConfigurations() call succeeds, configurations is
\* the fetched list, isLoadingConfigurations is false and configurationError
\* is null; right after it fails, configurationError is a message,
\* isLoadingConfigurations is false and configurations is unchanged; whatever
\* other loadConfigurations, loadConfiguration and saveConfiguration calls
\* are in flight or were answered in between
C16_LoadConfigurationsOutcome ==
  [][/\ last'.act = "loadConfigurations:ok" =>
          /\ configurations' = last'.arg
          /\ isLoadingConfigurations' = FALSE
          /\ configurationError' = NullString
     /\ last'.act = "loadConfigurations:failed" =>
          /\ configurationError' # NullString
          /\ isLoadingConfigurations' = FALSE
          /\ configurations' = configurations]_vars

\* C17: a failed loadConfiguration sets configurationError and leaves
\* currentConfiguration, steps and stepData as they were; a failed
\* saveConfiguration sets configurationError and leaves configurations and
\* currentConfiguration as they were; a successful saveConfiguration appends
\* the returned configuration, and nothing else, to configurations and makes
\* it current
C17_ConfigurationFailuresLeaveState ==
  [][/\ last'.act = "loadConfiguration:failed" =>
          /\ configurationError' # NullString
          /\ UNCHANGED <<currentConfiguration, steps, stepData>>
     /\ last'.act = "saveConfiguration:failed" =>
          /\ configurationError' # NullString
          /\ UNCHANGED <<configurations, currentConfiguration>>
     /\ last'.act = "saveConfiguration:ok" =>
          /\ configurations' = Append(configurations, last'.arg[1])
          /\ currentConfiguration' = last'.arg[1]
          /\ last'.arg[1].id = ServerAssignedId]_vars

\* a save that failed while a list was cached and a configuration current
C17_SaveFailedWithConfiguration ==
  /\ last.act = "saveConfiguration:failed"
  /\ configurations # <<>>
  /\ currentConfiguration # NoConfiguration
  /\ stepData # <<>>

\* C18: after hydrate(partial), expandedSteps is a set holding exactly the
\* identifiers the partial supplied (an array out of storage is converted),
\* isLeftPanelCollapsed has the supplied value, and optimisticUpdates is
\* empty whatever the partial carried
C18_HydrateConverts ==
  [][last'.act = "hydrate" =>
       LET partial == last'.arg[1]
       IN  /\ "expandedSteps" \in partial.has =>
                /\ expandedStepsForm' = "Set"
                /\ expandedSteps' = partial.expandedSteps
           /\ "isLeftPanelCollapsed" \in partial.has =>
                isLeftPanelCollapsed' = partial.isLeftPanelCollapsed
           /\ optimisticUpdates' = {}]_vars

\* C20: in every reachable state currentStepIndex is -1 or an index into the
\* step list (0 <= currentStepIndex < length(stepData))
C20_CurrentStepIndexInRange ==
  currentStepIndex = -1
    \/ (0 <= currentStepIndex /\ currentStepIndex < Len(stepData))

RuntimeFieldsReset(i) ==
  /\ stepData'[i].status = "pending" /\ stepData'[i].progress = 0
  /\ i \in DOMAIN steps' =>
       steps'[i].status = "pending" /\ steps'[i].progress = 0

\* C21: once startPipeline has succeeded every step of the store is back to
\* status pending and progress 0, and once runFromStep(stepId) has succeeded
\* so is every step from stepId on: no step keeps a status or a progress of
\* an earlier run
C21_RestartResetsSteps ==
  [][/\ last'.act = "startPipeline:ok" =>
          \A i \in DOMAIN stepData' : RuntimeFieldsReset(i)
     /\ last'.act = "runFromStep:ok" =>
          \A i \in DOMAIN stepData' :
            (/\ FindIndex(stepData', last'.arg[1].id) # NotFound
             /\ i >= FindIndex(stepData', last'.arg[1].id))
              => RuntimeFieldsReset(i)]_vars

OneRecordPerStep ==
  \A e1, e2 \in optimisticUpdates : e1.id = e2.id => e1 = e2

RecordsOf(map, stepId) == {e \in map : e.id = stepId}
RecordsButOf(map, stepId) == {e \in map : e.id # stepId}

\* the fields a partial carries are the fields of the step afterwards
CarriesPartial(step, updates) ==
  /\ updates.status # UndefinedString => step.status = updates.status
  /\ updates.progress # Undefined => step.progress = updates.progress
  /\ updates.warnings # Undefined => step.warnings = updates.warnings
  /\ updates.errors # Undefined => step.errors = updates.errors
  /\ updates.payload # UndefinedString => step.payload = updates.payload

\* C22: optimisticUpdates holds at most one record per step id;
\* applyOptimisticUpdate(s, u) makes the record of s exactly u, whatever
\* record s had, leaves the other records and applies u to step s;
\* revertOptimisticUpdate(s) and commitOptimisticUpdate(s) remove the record
\* of s alone, leave steps, stepData and every other record as they were, and
\* change nothing when s has no record
C22_OneOptimisticRecordPerStep ==
  /\ [](OneRecordPerStep)
  /\ [][/\ last'.act = "applyOptimisticUpdate" =>
             LET a == last'.arg[1]
                 i == FindIndex(stepData, a.id)
             IN  /\ RecordsOf(optimisticUpdates', a.id)
                      = {[id |-> a.id, updates |-> a.updates]}
                 /\ RecordsButOf(optimisticUpdates', a.id)
                      = RecordsButOf(optimisticUpdates, a.id)
                 /\ i # NotFound =>
                      /\ stepData'[i].id = a.id
                      /\ CarriesPartial(stepData'[i], a.updates)
        /\ last'.act \in {"revertOptimisticUpdate", "commitOptimisticUpdate"} =>
             LET s == last'.arg[1].id
             IN  /\ RecordsOf(optimisticUpdates', s) = {}
                 /\ RecordsButOf(optimisticUpdates', s)
                      = RecordsButOf(optimisticUpdates, s)
                 /\ UNCHANGED <<steps, stepData>>
                 /\ RecordsOf(optimisticUpdates, s) = {}
                      => UNCHANGED storeVars]_vars

\* an optimistic update reverted while another step still has its record
C22_RevertedOneOfTwo ==
  /\ last.act = "revertOptimisticUpdate" /\ last.found
  /\ optimisticUpdates # {}

Deliveries(delivered, callback) ==
  Cardinality({i \in DOMAIN delivered : delivered[i] = callback})

Active(id) == \E n \in activeNotifications : n.id = id

ActiveAndTimed(id) ==
  \E n \in activeNotifications : n.id = id /\ ~IsPersistent(n.options)

\* C24: a notification shown without persistent is eventually out of the
\* active set (its timer fires); a persistent one, and so every one made by
\* error() with no persistent override, leaves the active set only through
\* dismiss(id) or dismissAll(); dismiss(id) for an id the map does not hold,
\* a timer firing after dismissAll() included, changes nothing
C24_DismissalByTimerOrByCall ==
  /\ \A id \in NotificationIds : ActiveAndTimed(id) ~> ~Active(id)
  /\ [][/\ \A n \in activeNotifications :
             (IsPersistent(n.options) /\ n \notin activeNotifications')
               => \/ last'.act = "dismissAll"
                  \/ last'.act = "dismiss" /\ last'.arg[1].id = n.id
        /\ (last'.act = "error" /\ "persistent" \notin last'.arg[2].override.has)
             => /\ IsPersistent(last'.arg[1].options)
                /\ \A timer \in timers' : timer.id # last'.arg[1].id
        /\ (last'.act \in {"dismiss", "timer"} /\ ~last'.found)
             => UNCHANGED <<activeNotifications, subscribers,
                            nextNotification>>]_vars

\* a timer has removed its notification while a persistent one is still
\* active
C24_TimedOutNextToPersistent ==
  /\ last.act = "timer" /\ last.found
  /\ \E n \in activeNotifications : IsPersistent(n.options)

\* C25: the bridge forwards a pipelineStarted (pipelineCompleted,
\* pipelineError) notice only when pipelineStatus has changed into running
\* (completed, error) since the effect last ran: a store change that leaves
\* pipelineStatus as it was emits no further notice
C25_OneNoticePerTransition ==
  [][(last'.act = "statusEffect" /\ ~last'.noop)
       => effectDeps.status # pipelineStatus]_vars

\* C26: in every reachable state steps and stepData hold the same step ids in
\* the same order, and for each of them the status and the progress in steps
\* are the status and the progress in stepData
C26_CondensedMatchesFull ==
  /\ Len(steps) = Len(stepData)
  /\ \A i \in DOMAIN stepData :
       /\ steps[i].id = stepData[i].id
       /\ steps[i].status = stepData[i].status
       /\ steps[i].progress = stepData[i].progress

\* C27: whenever isConnected is true, executionId is not null and the
\* subscription the store holds was opened for that executionId, so that the
\* messages applied after a second successful startPipeline() are those of
\* the new execution
C27_ConnectedToCurrentExecution ==
  isConnected =>
    /\ executionId # Null
    /\ \E s \in eventSources :
         s.id = pipelineUnsubscribe /\ s.exec = executionId

\* C28: in every reachable state isLoadingConfigurations is true exactly when
\* a loadConfigurations() call is in flight, however many calls overlap and in
\* whatever order they are answered
C28_LoadingWhileInFlight ==
  isLoadingConfigurations <=> Pending("getConfigurations") # {}

StepIdsOf(list) == [i \in DOMAIN list |-> list[i].id]

\* C29: whenever a configuration is current, steps and stepData hold the step
\* ids of currentConfiguration.steps, in the same order; and the answer to a
\* loadConfiguration call that a later call has followed does not replace
\* the configuration once the later call has been answered, so that the one
\* requested last ends up current
C29_StepsOfCurrentConfiguration ==
  /\ [](currentConfiguration # NoConfiguration =>
          /\ StepIdsOf(steps) = StepIdsOf(currentConfiguration.steps)
          /\ StepIdsOf(stepData) = StepIdsOf(currentConfiguration.steps))
  /\ [][\A r \in Pending("getConfiguration") :
          (/\ last'.act = "loadConfiguration:ok"
           /\ inflight' = inflight \ {r}
           /\ r.prev = Superseded
           /\ \A o \in Pending("getConfiguration") : o.prev = Superseded)
            => currentConfiguration' = currentConfiguration]_vars

\* C30: once every updateStepPayload call for a step has been answered, all
\* with success, the local payload of the step is the payload the backend
\* stored last, whatever order the requests reached the backend in
C30_LocalPayloadIsStoredPayload ==
  Pending("updateStepPayload") = {} =>
    \A e \in persistedPayloads :
      (e.cfg = currentConfiguration.id
       /\ FindIndex(stepData, e.step) # NotFound)
        => PayloadOf(stepData, e.step) = e.payload

====
